---- MODULE Spec2Model ----
(***************************************************************************)
(* github-mcp-sse: the session table, the /sse and /message handlers and   *)
(* the tool dispatcher of src/src/index.ts (v1.0.0), together with the     *)
(* v1.1.0 variant of the same handlers embedded in src/README.md.          *)
(*                                                                         *)
(* Strings that the code slices or uses as table keys are sequences of     *)
(* one-character strings, so that substring() is computed, not assumed.    *)
(***************************************************************************)
EXTENDS Naturals, Sequences, FiniteSets, TLC

(* ------------------------------ bounds -------------------------------- *)

\* connections (GET /sse) made during one run
MaxConns == 2
\* POSTs handed to a transport during one run
MaxReqs == 2
\* longest base-36 fraction Math.random().toString(36) is taken to print
MaxFrac == 6
\* keep-alive frames counted per connection
MaxBeats == 1

(* ------------------------- program constants -------------------------- *)

\* (7) in Math.random().toString(36).substring(7)
SubstringStart == 7
\* res.status(400) of the /message handler of index.ts
StatusNoActiveSession == 400
\* res.status(404) of the /message handler of the v1.1.0 variant
StatusSessionNotFound == 404
\* res.status(500) of the /message handler of the v1.1.0 variant
StatusHandlerFault == 500
\* e.status !== 404 in the auto-fetch of the v1.1.0 create_or_update_file
StatusNotFound == 404

(* ------------------------------ strings ------------------------------- *)

Range(s) == {s[i] : i \in 1..Len(s)}

\* String.prototype.substring(start): the characters from index start on
\* (0-based), the empty string when start is beyond the end
Substring(str, start) ==
  IF start >= Len(str) THEN <<>> ELSE SubSeq(str, start + 1, Len(str))

\* base-36 digits the fraction of Math.random() is printed with
RandDigit == {"a"}

RECURSIVE SeqsOfLen(_, _)
SeqsOfLen(S, n) ==
  IF n = 0 THEN {<<>>}
  ELSE {Append(s, x) : s \in SeqsOfLen(S, n - 1), x \in S}

\* Math.random(): a number in [0, 1), given by the digits of its base-36
\* fraction (none for 0, one for 0.5, about eleven for most values)
MathRandom == UNION {SeqsOfLen(RandDigit, n) : n \in 0..MaxFrac}

\* Number.prototype.toString(36) of a number in [0, 1)
ToString36(frac) == IF frac = <<>> THEN <<"0">> ELSE <<"0", ".">> \o frac

\* the table key the /sse handler of index.ts mints
RandomKey(frac) == Substring(ToString36(frac), SubstringStart)

\* the transport's own session identifier (crypto randomUUID() in the
\* SSEServerTransport constructor): one per transport object, never repeated;
\* a UUID holds "-" and a base-36 string does not
TransportSessionId(c) == <<"-", ToString(c)>>

\* req.query.sessionId when the query string carries none
NoSessionId == <<"undefined">>

\* a property every plain object inherits from Object.prototype
InheritedName == <<"c", "o", "n", "s", "t", "r", "u", "c", "t", "o", "r">>
ObjectPrototypeNames == {InheritedName}

(* --------------------------- tool registry ---------------------------- *)

Descriptor(n, req) == [name |-> n, required |-> req]

\* const tools = [...] of index.ts, in source order
IndexTools == <<
  Descriptor("list_repositories", <<>>),
  Descriptor("get_repository", <<"owner", "repo">>),
  Descriptor("create_repository", <<"name">>),
  Descriptor("list_branches", <<"owner", "repo">>),
  Descriptor("get_file_contents", <<"owner", "repo", "path">>),
  Descriptor("create_or_update_file",
             <<"owner", "repo", "path", "message", "content">>),
  Descriptor("list_issues", <<"owner", "repo">>),
  Descriptor("create_issue", <<"owner", "repo", "title">>),
  Descriptor("list_pull_requests", <<"owner", "repo">>),
  Descriptor("create_pull_request",
             <<"owner", "repo", "title", "head", "base">>),
  Descriptor("list_commits", <<"owner", "repo">>),
  Descriptor("list_workflows", <<"owner", "repo">>),
  Descriptor("list_workflow_runs", <<"owner", "repo">>),
  Descriptor("get_authenticated_user", <<>>),
  Descriptor("search_repositories", <<"query">>) >>

\* the server.tool(...) registrations of createServer() in the v1.1.0
\* variant, in source order (every createServer() call registers the same)
ReadmeTools == <<
  Descriptor("get_authenticated_user", <<>>),
  Descriptor("list_repositories", <<>>),
  Descriptor("get_repository", <<"owner", "repo">>),
  Descriptor("create_repository", <<"name">>),
  Descriptor("list_branches", <<"owner", "repo">>),
  Descriptor("get_file_contents", <<"owner", "repo", "path">>),
  Descriptor("create_or_update_file",
             <<"owner", "repo", "path", "message", "content">>),
  Descriptor("delete_file", <<"owner", "repo", "path", "message">>),
  Descriptor("list_issues", <<"owner", "repo">>),
  Descriptor("create_issue", <<"owner", "repo", "title">>),
  Descriptor("list_pull_requests", <<"owner", "repo">>),
  Descriptor("create_pull_request",
             <<"owner", "repo", "title", "head", "base">>),
  Descriptor("list_commits", <<"owner", "repo">>),
  Descriptor("search_repositories", <<"q">>),
  Descriptor("list_workflows", <<"owner", "repo">>),
  Descriptor("list_workflow_runs", <<"owner", "repo">>) >>

Names(reg) == {reg[i].name : i \in 1..Len(reg)}

\* the case labels of the switch (name) of the CallToolRequestSchema handler
SwitchCases ==
  {"list_repositories", "get_repository", "create_repository",
   "list_branches", "get_file_contents", "create_or_update_file",
   "list_issues", "create_issue", "list_pull_requests",
   "create_pull_request", "list_commits", "list_workflows",
   "list_workflow_runs", "get_authenticated_user", "search_repositories"}

\* the Octokit method the implementation of a tool calls
UpstreamMethod(name) ==
  CASE name = "list_repositories" -> "repos.listForAuthenticatedUser"
    [] name = "get_repository" -> "repos.get"
    [] name = "create_repository" -> "repos.createForAuthenticatedUser"
    [] name = "list_branches" -> "repos.listBranches"
    [] name = "get_file_contents" -> "repos.getContent"
    [] name = "create_or_update_file" -> "repos.createOrUpdateFileContents"
    [] name = "delete_file" -> "repos.deleteFile"
    [] name = "list_issues" -> "issues.listForRepo"
    [] name = "create_issue" -> "issues.create"
    [] name = "list_pull_requests" -> "pulls.list"
    [] name = "create_pull_request" -> "pulls.create"
    [] name = "list_commits" -> "repos.listCommits"
    [] name = "list_workflows" -> "actions.listRepoWorkflows"
    [] name = "list_workflow_runs" -> "actions.listWorkflowRunsForRepo"
    [] name = "get_authenticated_user" -> "users.getAuthenticated"
    [] name = "search_repositories" -> "search.repos"

(* ------------------------- upstream (Octokit) ------------------------- *)

\* precondition tokens
Shas == {"sha1"}
\* an argument or field that is absent (undefined)
NoSha == "undefined"

\* what a call resolves with: for repos.getContent a file (which has a sha)
\* or a directory listing (an array, which has none); an object otherwise
Data(kind, sha) == [kind |-> kind, sha |-> sha]
Returns(method) ==
  IF method = "repos.getContent"
  THEN {Data("file", s) : s \in Shas} \cup {Data("listing", NoSha)}
  ELSE {Data("object", NoSha)}

\* 'sha' in data
HasSha(data) == data.kind = "file"

\* what a call rejects with: Octokit's RequestError, with its HTTP status
\* (a message is the sequence of the pieces it is put together from)
HttpError(status, message) ==
  [name |-> "HttpError", status |-> status, message |-> message]
NotFound == HttpError(StatusNotFound, <<"Not Found">>)
ServerError == HttpError(500, <<"Server Error">>)
\* a read is told "not found" or fails otherwise; for the other calls one
\* failure stands for all
Throws(method) ==
  IF method = "repos.getContent" THEN {NotFound, ServerError} ELSE {ServerError}

Returned(data) == [kind |-> "return", data |-> data, error |-> HttpError(0, <<>>)]
Thrown(e) == [kind |-> "throw", data |-> Data("object", NoSha), error |-> e]

\* a call issued to the upstream client
Call(method, sha) == [method |-> method, sha |-> sha]

(* ----------------------------- dispatcher ----------------------------- *)

\* one text content block
TextBlock(text) == [type |-> "text", text |-> text]

\* JSON.stringify(result, null, 2): the rendering of what the call resolved with
Stringify(data) == <<"json", data.kind, data.sha>>

\* { content: [{ type: 'text', text }] }
Success(data) == [isError |-> FALSE, content |-> <<TextBlock(Stringify(data))>>]

\* { content: [{ type: 'text', text: `Error: ...` }], isError: true }
Failure(rendering) ==
  [isError |-> TRUE, content |-> <<TextBlock(<<"Error: ">> \o rendering)>>]

\* error instanceof Error ? error.message : String(error)
ErrorMessage(e) == e.message

\* `${error}` of the v1.1.0 handlers: String(error) is "name: message"
ErrorString(e) == <<e.name, ": ">> \o e.message

\* new Error(`Unknown tool: ${name}`)
UnknownTool(name) ==
  [name |-> "Error", status |-> 0, message |-> <<"Unknown tool: ", name>>]

\* the state of one run of a tool handler: where it is suspended, the calls
\* it has issued to the upstream client, what they settled with, and the
\* results it has returned
NewHandler(name) ==
  [pc |-> "start", name |-> name, calls |-> <<>>, replies |-> <<>>,
   results |-> <<>>]
\* await octokit...(...)
Await(h, pc, call) == [h EXCEPT !.pc = pc, !.calls = Append(@, call)]
\* return { content, isError }
Return(h, result) == [h EXCEPT !.pc = "done", !.results = Append(@, result)]
\* the awaited call has settled
Settled(h, outcome) == [h EXCEPT !.replies = Append(@, outcome)]

\* IndexStart with the default case of the switch left out: an unknown name
\* falls through and an undefined result is rendered as a success
IndexStartNoDefault(name, sha) ==
  IF name \in SwitchCases
  THEN Await(NewHandler(name), "call",
             Call(UpstreamMethod(name),
                  IF name = "create_or_update_file" THEN sha ELSE NoSha))
  ELSE Return(NewHandler(name), Success(Data("object", NoSha)))

\* the CallToolRequestSchema handler of index.ts, up to its first await:
\* a case of the switch issues the tool's upstream call (createOrUpdateFile
\* passes args.sha on as it is); the default case throws into the catch
IndexStart(name, sha) ==
  IF name \in SwitchCases
  THEN Await(NewHandler(name), "call",
             Call(UpstreamMethod(name),
                  IF name = "create_or_update_file" THEN sha ELSE NoSha))
  ELSE Return(NewHandler(name), Failure(ErrorMessage(UnknownTool(name))))

\* IndexResume without the catch: a rejected call ends the handler with no
\* result
IndexResumeNoCatch(h, outcome) ==
  IF outcome.kind = "return"
  THEN Return(h, Success(outcome.data))
  ELSE [h EXCEPT !.pc = "done"]

\* the same handler when its awaited call settles: return or catch
IndexResume(h, outcome) ==
  IF outcome.kind = "return"
  THEN Return(h, Success(outcome.data))
  ELSE Return(h, Failure(ErrorMessage(outcome.error)))

\* a tool callback of the v1.1.0 variant, up to its first await:
\* create_or_update_file and delete_file first read the file when no sha is given
ReadmeStart(name, sha) ==
  IF name \in {"create_or_update_file", "delete_file"} /\ sha = NoSha
  THEN Await(NewHandler(name), "read", Call("repos.getContent", NoSha))
  ELSE Await(NewHandler(name), "call",
             Call(UpstreamMethod(name),
                  IF name \in {"create_or_update_file", "delete_file"}
                  THEN sha ELSE NoSha))

\* ReadmeUpdateAfterRead without the rethrow: every failure of the read is
\* taken for a file that does not exist
ReadmeUpdateAsCreate(h, outcome) ==
  IF outcome.kind = "return"
  THEN Await(h, "call",
             Call("repos.createOrUpdateFileContents",
                  IF HasSha(outcome.data) THEN outcome.data.sha ELSE NoSha))
  ELSE Await(h, "call", Call("repos.createOrUpdateFileContents", NoSha))

\* create_or_update_file of the v1.1.0 variant when its read settles
ReadmeUpdateAfterRead(h, outcome) ==
  IF outcome.kind = "return"
  THEN Await(h, "call",
             Call("repos.createOrUpdateFileContents",
                  IF HasSha(outcome.data) THEN outcome.data.sha ELSE NoSha))
  ELSE IF outcome.error.status # StatusNotFound
  THEN Return(h, Failure(ErrorString(outcome.error)))
  ELSE Await(h, "call", Call("repos.createOrUpdateFileContents", NoSha))

\* ReadmeDeleteAfterRead without the else branch: data with no sha goes on
\* to the delete with an undefined sha
ReadmeDeleteAnyway(h, outcome) ==
  IF outcome.kind = "return"
  THEN Await(h, "call",
             Call("repos.deleteFile",
                  IF HasSha(outcome.data) THEN outcome.data.sha ELSE NoSha))
  ELSE Return(h, Failure(ErrorString(outcome.error)))

\* delete_file of the v1.1.0 variant when its read settles
ReadmeDeleteAfterRead(h, outcome) ==
  IF outcome.kind = "return"
  THEN IF HasSha(outcome.data)
       THEN Await(h, "call", Call("repos.deleteFile", outcome.data.sha))
       ELSE Return(h, Failure(<<"Could not get file SHA">>))
  ELSE Return(h, Failure(ErrorString(outcome.error)))

\* a tool callback of the v1.1.0 variant when its awaited call settles
ReadmeResume(h, outcome) ==
  IF h.pc = "read"
  THEN IF h.name = "delete_file"
       THEN ReadmeDeleteAfterRead(h, outcome)
       ELSE ReadmeUpdateAfterRead(h, outcome)
  ELSE IF outcome.kind = "return"
  THEN Return(h, Success(outcome.data))
  ELSE Return(h, Failure(ErrorString(outcome.error)))

\* ListTools answering with a slice of the registry
ListToolsTail(registry) == Tail(registry)

\* the ListToolsRequestSchema handler: return { tools }
ListTools(registry) == registry

(* --------------------------- session table ---------------------------- *)

Entry(key, c) == [key |-> key, transport |-> c]

TableHas(table, key) == \E e \in table : e.key = key
TableGet(table, key) == (CHOOSE e \in table : e.key = key).transport
\* transports.set(key, transport) / transports[key] = transport
TableSet(table, key, c) == {e \in table : e.key # key} \cup {Entry(key, c)}
\* TableDelete that deletes nothing
TableDeleteNothing(table, key) == table

\* transports.delete(key) / delete transports[key]
TableDelete(table, key) == {e \in table : e.key # key}

Found(c) == [kind |-> "transport", transport |-> c]
Undefined == [kind |-> "undefined", transport |-> 0]
Inherited == [kind |-> "inherited", transport |-> 0]

\* transports.get(sessionId) on the Map of index.ts
MapGet(table, sid) ==
  IF TableHas(table, sid) THEN Found(TableGet(table, sid)) ELSE Undefined

\* transports[sessionId] on the plain object of the v1.1.0 variant: an own
\* property, else what Object.prototype has under that name, else undefined
ObjectGet(table, sid) ==
  IF TableHas(table, sid) THEN Found(TableGet(table, sid))
  ELSE IF sid \in ObjectPrototypeNames THEN Inherited
  ELSE Undefined

(* ------------------------------- state -------------------------------- *)

VARIABLES
  variant,      \* "index": src/src/index.ts; "readme": the v1.1.0 variant
  env,          \* whether GITHUB_TOKEN is set
  process,      \* "starting", "serving" or "exited"
  tools,        \* the tool registry
  transports,   \* the session table: entries key -> transport
  conns,        \* the /sse connections made so far, in order of arrival
  streams,      \* per connection, the protocol messages written to its stream
  heartbeats,   \* per connection, the keep-alive frames written to its stream
  invocations,  \* the POSTed requests handed to a transport, in order
  lastPost      \* the HTTP response written in the current turn of the
                \* event loop by the /message handler (NoPost: none)

vars == <<variant, env, process, tools, transports, conns, streams,
          heartbeats, invocations, lastPost>>

Variants == {"index", "readme"}

\* a connection: its stream is open or closed; the key its transport was
\* registered under; the transport's own session identifier; whether its
\* keep-alive timer runs; and, once closed, how many connections had been
\* made by then (0 while open)
Conn(key, sessionId, keepAlive) ==
  [open |-> TRUE, key |-> key, sessionId |-> sessionId, keepAlive |-> keepAlive,
   closedAt |-> 0]

Message(kind, req, body) == [kind |-> kind, req |-> req, body |-> body]

HttpResponse(sid, status, error, req) ==
  [sid |-> sid, status |-> status, error |-> error, req |-> req]
NoPost == HttpResponse(NoSessionId, 0, "", 0)

OpenConns == {c \in 1..Len(conns) : conns[c].open}

\* what a client may put in ?sessionId=
SidInputs ==
  {TransportSessionId(c) : c \in 1..MaxConns}
    \cup {RandomKey(frac) : frac \in MathRandom}
    \cup {NoSessionId, InheritedName}

\* tool names clients invoke
InvokedNames == {"get_repository", "create_or_update_file", "delete_file"}

ListRequest == [method |-> "tools/list", name |-> "", sha |-> NoSha]
CallRequest(name, sha) == [method |-> "tools/call", name |-> name, sha |-> sha]

\* the protocol requests clients POST
Requests ==
  {ListRequest}
    \cup {CallRequest(n, NoSha) : n \in InvokedNames}

Init ==
  /\ variant \in Variants
  /\ env \in BOOLEAN
  /\ process = "starting"
  /\ tools = <<>>
  /\ transports = {}
  /\ conns = <<>>
  /\ streams = <<>>
  /\ heartbeats = <<>>
  /\ invocations = <<>>
  /\ lastPost = NoPost

(* ------------------------------ startup ------------------------------- *)

\* variant of Startup that opens the listener without looking at GITHUB_TOKEN
StartupUnchecked ==
  /\ process = "starting"
  /\ lastPost = NoPost
  /\ process' = "serving"
  /\ tools' = IF variant = "index" THEN IndexTools ELSE ReadmeTools
  /\ UNCHANGED <<variant, env, transports, conns, streams, heartbeats,
                 invocations, lastPost>>

\* module load: process.exit(1) without GITHUB_TOKEN; otherwise the registry
\* is built and app.listen opens the listener
Startup ==
  /\ process = "starting"
  /\ lastPost = NoPost
  /\ IF ~env
     THEN /\ process' = "exited"
          /\ tools' = tools
     ELSE /\ process' = "serving"
          /\ tools' = IF variant = "index" THEN IndexTools ELSE ReadmeTools
  /\ UNCHANGED <<variant, env, transports, conns, streams, heartbeats,
                 invocations, lastPost>>

(* ------------------------------ GET /sse ------------------------------ *)

\* the key the /sse handler registers the transport under
IndexSessionKey(c, frac) == RandomKey(frac)
ReadmeSessionKey(c, frac) == TransportSessionId(c)
SessionKey(c, frac) ==
  IF variant = "index" THEN IndexSessionKey(c, frac) ELSE ReadmeSessionKey(c, frac)

\* app.get('/sse'): a transport, its table entry, (v1.1.0) its keep-alive
\* timer, and server.connect, whose first event carries the transport's
\* session identifier
Connect(frac) ==
  /\ process = "serving"
  /\ lastPost = NoPost
  /\ Len(conns) < MaxConns
  /\ LET c == Len(conns) + 1
         key == SessionKey(c, frac)
     IN /\ conns' = Append(conns, Conn(key, TransportSessionId(c), variant = "readme"))
        /\ transports' = TableSet(transports, key, c)
        /\ streams' = Append(streams,
             <<Message("endpoint", 0, [sessionId |-> TransportSessionId(c)])>>)
        /\ heartbeats' = Append(heartbeats, 0)
  /\ UNCHANGED <<variant, env, process, tools, invocations, lastPost>>

\* res.on('close'): the entry under the handler's key is deleted and
\* (v1.1.0) the keep-alive timer is cleared
Close(c) ==
  /\ process = "serving"
  /\ lastPost = NoPost
  /\ c \in OpenConns
  /\ conns' = [conns EXCEPT ![c].open = FALSE, ![c].keepAlive = FALSE,
                            ![c].closedAt = Len(conns)]
  /\ transports' = TableDelete(transports, conns[c].key)
  /\ UNCHANGED <<variant, env, process, tools, streams, heartbeats,
                 invocations, lastPost>>

\* the setInterval callback of the v1.1.0 variant: res.write(': keepalive')
KeepAlive(c) ==
  /\ process = "serving"
  /\ c \in 1..Len(conns)
  /\ lastPost = NoPost
  /\ conns[c].keepAlive
  /\ heartbeats[c] < MaxBeats
  /\ heartbeats' = [heartbeats EXCEPT ![c] = @ + 1]
  /\ UNCHANGED <<variant, env, process, tools, transports, conns, streams,
                 invocations, lastPost>>

(* --------------------------- POST /message ---------------------------- *)

Invocation(c, sid, request, h) ==
  [transport |-> c, sid |-> sid, method |-> request.method, sha |-> request.sha,
   h |-> h]

\* the tool handler of the running variant
HandlerStart(name, sha) ==
  IF variant = "index" THEN IndexStart(name, sha) ELSE ReadmeStart(name, sha)
HandlerResume(h, outcome) ==
  IF variant = "index" THEN IndexResume(h, outcome) ELSE ReadmeResume(h, outcome)

\* the stream a transport writes to
StreamOf(c) == c

\* variant of Send that writes whether or not the stream is still open
SendAnyway(c, r, kind, bodies) ==
  [streams EXCEPT ![StreamOf(c)] =
     @ \o [i \in 1..Len(bodies) |-> Message(kind, r, bodies[i])]]

\* variant of Send that holds a result back while an earlier request of the
\* same transport has not completed
SendInArrivalOrder(c, r, kind, bodies) ==
  IF /\ conns[c].open
     /\ \A q \in 1..Len(invocations) :
          (q < r /\ invocations[q].transport = c) => invocations[q].h.pc = "done"
  THEN [streams EXCEPT ![StreamOf(c)] =
          @ \o [i \in 1..Len(bodies) |-> Message(kind, r, bodies[i])]]
  ELSE streams

\* transport.send for each result a handler returned: written to the SSE
\* response of that transport while it is open, dropped once it has closed
Send(c, r, kind, bodies) ==
  IF conns[c].open
  THEN [streams EXCEPT ![StreamOf(c)] =
          @ \o [i \in 1..Len(bodies) |-> Message(kind, r, bodies[i])]]
  ELSE streams

\* res.status(400).json({ error: 'No active session' })
IndexNoSession(sid) ==
  HttpResponse(sid, StatusNoActiveSession, "No active session", 0)
\* res.status(404).json({ error: 'Session not found' })
ReadmeNoSession(sid) ==
  HttpResponse(sid, StatusSessionNotFound, "Session not found", 0)
\* the catch of the v1.1.0 handler: res.status(500).json({ error: String(error) })
ReadmeFault(sid) ==
  HttpResponse(sid, StatusHandlerFault,
               "TypeError: transport.handlePostMessage is not a function",
               0)
\* the transport took the request r: its handlePostMessage answers 202 Accepted
Accepted(sid, r) == HttpResponse(sid, 202, "", r)

\* transport.handlePostMessage: the request reaches the server connected to
\* this transport, whose handler runs up to its first await; a list request
\* and a handler that returns without awaiting are answered in the same turn
HandlePostMessage(c, sid, request) ==
  /\ Len(invocations) < MaxReqs
  /\ LET r == Len(invocations) + 1
         h == IF request.method = "tools/list"
              THEN Return(NewHandler(""), [tools |-> ListTools(tools)])
              ELSE HandlerStart(request.name, request.sha)
     IN /\ invocations' = Append(invocations, Invocation(c, sid, request, h))
        /\ streams' =
             IF request.method = "tools/list"
             THEN Send(c, r, "list", h.results)
             ELSE IF h.pc = "done" THEN Send(c, r, "result", h.results)
             ELSE streams
        /\ lastPost' = Accepted(sid, r)
  /\ UNCHANGED <<variant, env, process, tools, transports, conns, heartbeats>>

\* no transport for this sessionId: the error response and nothing else
Refuse(response) ==
  /\ lastPost' = response
  /\ UNCHANGED <<variant, env, process, tools, transports, conns, streams,
                 heartbeats, invocations>>

\* the table lookup of the running variant
Lookup(sid) ==
  IF variant = "index" THEN MapGet(transports, sid) ELSE ObjectGet(transports, sid)

\* app.post('/message'). In the v1.1.0 variant the McpServer resolves the
\* tool name before any callback of this repository runs, so only registered
\* names reach them.
PostMessage(sid, request) ==
  /\ process = "serving"
  /\ lastPost = NoPost
  /\ variant = "readme" /\ request.method = "tools/call"
       => request.name \in Names(tools)
  /\ LET got == Lookup(sid)
     IN IF got.kind = "transport"
        THEN HandlePostMessage(got.transport, sid, request)
        ELSE IF variant = "index" THEN Refuse(IndexNoSession(sid))
        ELSE IF got.kind = "undefined" THEN Refuse(ReadmeNoSession(sid))
        ELSE Refuse(ReadmeFault(sid))

\* the response has gone out and the handler's turn is over
EndTurn ==
  /\ lastPost # NoPost
  /\ lastPost' = NoPost
  /\ UNCHANGED <<variant, env, process, tools, transports, conns, streams,
                 heartbeats, invocations>>

(* ------------------------ upstream call settles ----------------------- *)

\* variant of Suspended for a server that resumes handlers in arrival order
SuspendedInOrder ==
  {r \in 1..Len(invocations) :
     /\ invocations[r].h.pc # "done"
     /\ \A q \in 1..(r - 1) : invocations[q].h.pc = "done"}

\* the invocations whose handler is waiting at an await
Suspended == {r \in 1..Len(invocations) : invocations[r].h.pc # "done"}

LastCall(h) == h.calls[Len(h.calls)]

\* the awaited call of invocation r settles and its handler runs on, to its
\* next await or to its result, which the server sends on the transport the
\* request came in on
Settle(r, outcome) ==
  /\ process = "serving"
  /\ lastPost = NoPost
  /\ r \in Suspended
  /\ LET inv == invocations[r]
         h == HandlerResume(Settled(inv.h, outcome), outcome)
     IN /\ invocations' = [invocations EXCEPT ![r].h = h]
        /\ streams' = IF h.pc = "done"
                      THEN Send(inv.transport, r, "result", h.results)
                      ELSE streams
  /\ UNCHANGED <<variant, env, process, tools, transports, conns, heartbeats,
                 lastPost>>

UpstreamReturn(r) ==
  /\ r \in Suspended
  /\ \E data \in Returns(LastCall(invocations[r].h).method) :
       Settle(r, Returned(data))

UpstreamThrow(r) ==
  /\ r \in Suspended
  /\ \E e \in Throws(LastCall(invocations[r].h).method) : Settle(r, Thrown(e))

(* --------------------------- specification ---------------------------- *)

Next ==
  \/ Startup
  \/ \E frac \in MathRandom : Connect(frac)
  \/ \E c \in 1..MaxConns : Close(c)
  \/ \E c \in 1..MaxConns : KeepAlive(c)
  \/ \E sid \in SidInputs, request \in Requests : PostMessage(sid, request)
  \/ EndTurn
  \/ \E r \in 1..MaxReqs : UpstreamReturn(r)
  \/ \E r \in 1..MaxReqs : UpstreamThrow(r)

Spec == Init /\ [][Next]_vars

(* ------------------------------- claims ------------------------------- *)

\* the identifiers of a session: the key its transport is registered under
\* and the identifier its transport sent to the client in its first event
Ids(c) == {conns[c].key, conns[c].sessionId}
\* the identifier a stream conveyed to its client
Conveyed(c) == streams[c][1].body.sessionId

Posted == lastPost # NoPost
IsRefusal(response) ==
  /\ response.status \in 400..499
  /\ response.error # ""
  /\ response.req = 0

\* C1: while an /sse stream is open, a POST /message carrying the identifier
\* that stream conveyed to its client is accepted and handed to that stream's
\* transport, never answered with the session-not-found error.
ClaimC1 ==
  Posted =>
    \A c \in OpenConns :
      lastPost.sid = Conveyed(c) =>
        /\ lastPost.req \in 1..Len(invocations)
        /\ lastPost = Accepted(lastPost.sid, lastPost.req)
        /\ invocations[lastPost.req].transport = c

\* the results and list answers of request r written to the stream of c
Deliveries(c, r) ==
  {i \in 1..Len(streams[c]) : streams[c][i].kind # "endpoint" /\ streams[c][i].req = r}

\* C2: a request POSTed with the identifier of a session A that is open is
\* handed to A's transport, and the result of a request is written only to
\* the stream of the session it was handed to, never to another one.
ClaimC2 ==
  /\ Posted /\ lastPost.req > 0 =>
       \A a \in OpenConns :
         lastPost.sid \in Ids(a) => invocations[lastPost.req].transport = a
  /\ \A r \in 1..Len(invocations) : \A b \in 1..Len(conns) :
       b # invocations[r].transport => Deliveries(b, r) = {}

\* C3: no two open connections are registered under the same identifier.
ClaimC3 ==
  \A a, b \in OpenConns : a # b => conns[a].key # conns[b].key

\* C4: once a connection has closed its entry is gone from the table, and as
\* long as no connection has been made since, nothing is registered under its
\* key and a POST carrying one of its identifiers is refused with the
\* session-not-found error.
TheoremC4 ==
  /\ \A c \in 1..Len(conns) :
       ~conns[c].open =>
         /\ Entry(conns[c].key, c) \notin transports
         /\ conns[c].closedAt = Len(conns) => ~TableHas(transports, conns[c].key)
  /\ Posted =>
       \A c \in 1..Len(conns) :
         (~conns[c].open /\ conns[c].closedAt = Len(conns) /\ lastPost.sid \in Ids(c))
           => IsRefusal(lastPost)

\* a POST carrying the key of a connection that was accepted under it while
\* open, and that has closed since with no connection made after, is refused
WitnessC4 ==
  /\ Posted
  /\ IsRefusal(lastPost)
  /\ \E c \in 1..Len(conns) :
       /\ ~conns[c].open
       /\ conns[c].closedAt = Len(conns)
       /\ lastPost.sid = conns[c].key
       /\ \E r \in 1..Len(invocations) :
            invocations[r].transport = c /\ invocations[r].sid = conns[c].key

\* the sessionId matches no live session
MatchesNoLive(sid) == \A c \in OpenConns : sid \notin Ids(c)

\* C5: a POST whose sessionId matches no live session is answered with a 4xx
\* status and a JSON error body, starts no handler, writes nothing to any
\* stream and leaves the table and the sessions as they were.
ClaimC5 ==
  [][ (~Posted /\ Posted' /\ MatchesNoLive(lastPost'.sid)) =>
        /\ IsRefusal(lastPost')
        /\ UNCHANGED <<transports, conns, streams, heartbeats, invocations,
                       process, tools>> ]_vars

ToolCalls == {r \in 1..Len(invocations) : invocations[r].method = "tools/call"}
UnknownCalls == {r \in ToolCalls : invocations[r].h.name \notin Names(tools)}
RegisteredCalls == {r \in ToolCalls : invocations[r].h.name \in Names(tools)}

OneTextBlock(result) ==
  /\ Len(result.content) = 1
  /\ result.content[1].type = "text"

C6State ==
  \A r \in UnknownCalls :
    LET h == invocations[r].h
    IN /\ h.calls = <<>>
       /\ h.pc = "done"
       /\ Len(h.results) = 1
       /\ h.results[1].isError
       /\ OneTextBlock(h.results[1])
       /\ h.name \in Range(h.results[1].content[1].text)

C6Step ==
  \A r \in UnknownCalls' \ UnknownCalls :
    /\ UNCHANGED <<conns, transports, heartbeats, process, tools>>
    /\ \A q \in 1..Len(invocations) : invocations'[q] = invocations[q]
    /\ \A b \in 1..Len(conns) :
         b # invocations'[r].transport => streams'[b] = streams[b]

\* C6: an invocation of a name that is not in the registry issues no upstream
\* call and gets one error-flagged result whose text holds the requested
\* name; the step closes no session and touches no other session's table
\* entry, stream or invocations.
TheoremC6 == []C6State /\ [][C6Step]_vars

\* an unknown name was invoked in one session while another was open, and
\* its error result is on its own stream
WitnessC6 ==
  \E r \in UnknownCalls :
    /\ Cardinality(OpenConns) = 2
    /\ Deliveries(invocations[r].transport, r) # {}

C7State ==
  \A r \in RegisteredCalls :
    LET h == invocations[r].h
    IN /\ process = "serving"
       /\ IF h.pc = "done"
          THEN Len(h.results) = 1 /\ OneTextBlock(h.results[1])
          ELSE h.results = <<>>
       /\ variant = "index" =>
            /\ Len(h.calls) = 1
            /\ h.pc = "done" <=> Len(h.replies) = 1
            /\ Len(h.replies) = 1 =>
                 IF h.replies[1].kind = "return"
                 THEN /\ ~h.results[1].isError
                      /\ h.results[1].content[1].text = Stringify(h.replies[1].data)
                 ELSE /\ h.results[1].isError
                      /\ h.results[1].content[1].text =
                           <<"Error: ">> \o h.replies[1].error.message

C7Step ==
  \A r \in RegisteredCalls :
    invocations'[r].h # invocations[r].h =>
      UNCHANGED <<conns, transports, process>>

\* C7: an invocation of a registered tool has no result while its upstream
\* call is pending and exactly one result, of one text block, once it has
\* settled: in the handler of index.ts, which makes one call per tool, not
\* error-flagged and rendering the data when the call returned, error-flagged
\* and rendering the failure when it threw; the step in which
\* the call settles closes no session, changes no table entry and leaves the
\* process serving.
TheoremC7 == []C7State /\ [][C7Step]_vars

\* in index.ts, one invocation whose call returned and one whose call threw
WitnessC7 ==
  /\ variant = "index"
  /\ \E r1, r2 \in RegisteredCalls :
       /\ Len(invocations[r1].h.replies) = 1
       /\ invocations[r1].h.replies[1].kind = "return"
       /\ ~invocations[r1].h.results[1].isError
       /\ Len(invocations[r2].h.replies) = 1
       /\ invocations[r2].h.replies[1].kind = "throw"
       /\ invocations[r2].h.results[1].isError
       /\ conns[invocations[r2].transport].open

\* what startup registered
Registered == IF variant = "index" THEN IndexTools ELSE ReadmeTools

\* C8: while serving, the registry is the sequence registered at startup,
\* with no name twice, and every tool-list answer on any stream is that
\* sequence.
TheoremC8 ==
  process = "serving" =>
    /\ tools = Registered
    /\ \A i, j \in 1..Len(tools) : i # j => tools[i].name # tools[j].name
    /\ \A c \in 1..Len(conns) : \A i \in 1..Len(streams[c]) :
         streams[c][i].kind = "list" => streams[c][i].body.tools = Registered

\* a tool list answered after an invocation's result on the same stream, and
\* after another session has closed
WitnessC8 ==
  \E c \in OpenConns :
    /\ \E d \in 1..Len(conns) : ~conns[d].open
    /\ \E i, j \in 1..Len(streams[c]) :
         /\ i < j
         /\ streams[c][i].kind = "result"
         /\ streams[c][j].kind = "list"
         /\ streams[c][j].body.tools = Registered

\* invocations of a file tool with no sha argument
WithoutToken(name) ==
  {r \in ToolCalls : invocations[r].h.name = name /\ invocations[r].sha = NoSha}

\* the i-th call of a handler has settled by returning a file with its sha
YieldedToken(h, i) ==
  /\ i \in 1..Len(h.replies)
  /\ h.replies[i].kind = "return"
  /\ HasSha(h.replies[i].data)

\* the i-th call of a handler has settled by failing with not-found
ReadNotFound(h, i) ==
  /\ i \in 1..Len(h.replies)
  /\ h.replies[i].kind = "throw"
  /\ h.replies[i].error.status = StatusNotFound

TheoremC10 ==
  \A r \in WithoutToken("delete_file") :
    LET h == invocations[r].h
    IN /\ \A i \in 1..Len(h.calls) :
            h.calls[i].method = "repos.deleteFile" =>
              /\ i = 2
              /\ h.calls[1].method = "repos.getContent"
              /\ YieldedToken(h, 1)
              /\ h.calls[2].sha = h.replies[1].data.sha
              /\ h.calls[2].sha \in Shas
       /\ (Len(h.replies) >= 1 /\ ~YieldedToken(h, 1)) =>
            /\ h.pc = "done"
            /\ Len(h.results) = 1
            /\ h.results[1].isError
            /\ \A i \in 1..Len(h.calls) : h.calls[i].method # "repos.deleteFile"
       /\ (variant = "readme" /\ Len(h.calls) >= 1) =>
            h.calls[1].method = "repos.getContent"

\* in the v1.1.0 variant, one delete issued with the token its read returned,
\* and one invocation ended with an error after a read that was not found
WitnessC10 ==
  \E r1, r2 \in WithoutToken("delete_file") :
    /\ Len(invocations[r1].h.calls) = 2
    /\ invocations[r1].h.calls[2] = Call("repos.deleteFile", "sha1")
    /\ ReadNotFound(invocations[r2].h, 1)
    /\ invocations[r2].h.pc = "done"
    /\ invocations[r2].h.results[1].isError

(* ------------------------------ keep-alive ---------------------------- *)

\* the keep-alive timer of every open connection is running, and that of a
\* closed one is not
C11State ==
  \A c \in 1..Len(conns) : conns[c].keepAlive = conns[c].open

\* a heartbeat is written only for an open connection
C11Step ==
  \A c \in 1..Len(conns) :
    heartbeats'[c] # heartbeats[c] => conns[c].open /\ conns'[c].open

\* C11: every open session, those of the /sse handler of index.ts included,
\* has its keep-alive timer running, so that it writes a heartbeat at each
\* tick for as long as it stays open, and no heartbeat is written for a
\* session whose stream has closed.
ClaimC11 == []C11State /\ [][C11Step]_vars

(* --------------------------- a call that hangs ------------------------ *)

\* the invocations whose upstream call has not returned
Outstanding == {r \in 1..Len(invocations) : invocations[r].h.pc # "done"}
Completed == {r \in 1..Len(invocations) : invocations[r].h.pc = "done"}

\* C12: while the upstream call of one invocation has not returned, every
\* other invocation can still have its own call return, an invocation that
\* has completed has its result on the stream of its session if that stream
\* is open, and GET /sse and POST /message are still served.
TheoremC12 ==
  \A r \in Outstanding :
    /\ \A q \in Completed :
         conns[invocations[q].transport].open =>
           Deliveries(invocations[q].transport, q) # {}
    /\ (process = "serving" /\ lastPost = NoPost) =>
         /\ \A q \in Outstanding \ {r} : ENABLED UpstreamReturn(q)
         /\ Len(conns) < MaxConns => ENABLED (\E frac \in MathRandom : Connect(frac))
         /\ \A sid \in SidInputs : ENABLED PostMessage(sid, ListRequest)
                                     \/ Len(invocations) = MaxReqs

\* an invocation posted first is still waiting for its call while one posted
\* after it on the same session has had its call settle and its result written
WitnessC12 ==
  \E r \in Outstanding : \E q \in Completed :
    /\ r < q
    /\ invocations[q].transport = invocations[r].transport
    /\ invocations[q].h.replies # <<>>
    /\ conns[invocations[q].transport].open
    /\ Deliveries(invocations[q].transport, q) # {}

(* ------------------------- closed stays closed ------------------------ *)

\* C13: a session that has closed never opens again, and every GET /sse
\* registers its session under an identifier that no earlier session, open
\* or closed, has used.
ClaimC13 ==
  [][ /\ \A c \in 1..Len(conns) : ~conns[c].open => ~conns'[c].open
      /\ Len(conns') > Len(conns) =>
           \A c \in 1..Len(conns) :
             /\ conns'[Len(conns')].key # conns[c].key
             /\ conns'[Len(conns')].sessionId # conns[c].sessionId ]_vars

(* ----------------------------- process exit --------------------------- *)

\* an exited process had no GITHUB_TOKEN and never opened its listener: no
\* registry, session, stream or invocation exists; a serving one has the token
C14State ==
  /\ process = "exited" =>
       /\ ~env
       /\ tools = <<>>
       /\ transports = {}
       /\ conns = <<>>
       /\ streams = <<>>
       /\ invocations = <<>>
       /\ lastPost = NoPost
  /\ process = "serving" => env

\* the process exits only out of startup, and a serving process keeps serving
C14Step ==
  /\ (process' = "exited" /\ process # "exited") => (process = "starting" /\ ~env)
  /\ process = "serving" => process' = "serving"

\* C14: the process exits only during startup and only for want of
\* GITHUB_TOKEN, before the listener is open and before any session exists;
\* once it serves, no handler, dispatcher error, refused POST or stream
\* close makes it exit.
TheoremC14 == []C14State /\ [][C14Step]_vars

\* the process has exited at startup for want of the token
WitnessC14 ==
  /\ process = "exited"
  /\ ~env
  /\ conns = <<>>

(* ------------------------ the table and the streams ------------------- *)

\* C15: the table holds exactly the sessions whose stream is open: every
\* open connection has the entry that maps its key to its own transport,
\* and every entry belongs to an open connection; so no close leaves another
\* open connection without its entry.
ClaimC15 ==
  /\ \A c \in OpenConns : Entry(conns[c].key, c) \in transports
  /\ \A e \in transports :
       /\ e.transport \in OpenConns
       /\ e.key = conns[e.transport].key

(* ------------------------ completion after close ---------------------- *)

\* no keep-alive timer is left running for a closed connection
C16State ==
  \A c \in 1..Len(conns) : ~conns[c].open => ~conns[c].keepAlive

\* nothing is ever written for a closed connection, and a handler that runs
\* on after its connection has closed changes no stream, no heartbeat count,
\* no table entry, no connection and not the process
C16Step ==
  /\ \A c \in 1..Len(conns) :
       ~conns[c].open =>
         /\ streams'[c] = streams[c]
         /\ heartbeats'[c] = heartbeats[c]
  /\ \A r \in 1..Len(invocations) :
       (invocations'[r].h # invocations[r].h
          /\ ~conns[invocations[r].transport].open)
         => UNCHANGED <<streams, heartbeats, transports, conns, process>>

Completes(r) ==
  /\ r \in 1..Len(invocations')
  /\ invocations'[r].h.pc = "done"
  /\ r \in 1..Len(invocations) => invocations[r].h.pc # "done"

\* C17: the result of a request is written at the end of its session's
\* stream in the very step in which its handler completes, whether or not
\* requests POSTed before it on that session are still outstanding; so the
\* results of a session stand on its stream in the order of completion.
TheoremC17 ==
  [][ \A r \in 1..MaxReqs :
        (Completes(r) /\ conns[invocations'[r].transport].open) =>
          LET c == invocations'[r].transport
              n == Len(streams[c])
          IN /\ Len(streams'[c]) = n + 1
             /\ \A i \in 1..n : streams'[c][i] = streams[c][i]
             /\ streams'[c][n + 1].req = r
             /\ streams'[c][n + 1].kind # "endpoint"
             /\ streams'[c][n + 1].body = invocations'[r].h.results[1] ]_vars

\* two requests of one session, each after an upstream call: the result of
\* the one POSTed later stands on the stream before that of the earlier one
WitnessC17 ==
  \E c \in OpenConns : \E i, j \in 1..Len(streams[c]) :
    /\ i < j
    /\ streams[c][i].kind = "result"
    /\ streams[c][j].kind = "result"
    /\ streams[c][i].req > streams[c][j].req
    /\ \A r \in {streams[c][i].req, streams[c][j].req} :
         /\ invocations[r].transport = c
         /\ invocations[r].h.replies # <<>>

(* ------------------------ sessions are independent -------------------- *)

\* C18: the opening of a connection adds its own entry to the table and
\* its closing removes its own entry, and either leaves the entry of every
\* other session as it was; the transport of a new connection is that of no
\* other session.
ClaimC18 ==
  [][ /\ Len(conns') > Len(conns) =>
           LET c == Len(conns')
           IN /\ transports' = transports \cup {Entry(conns'[c].key, c)}
              /\ \A e \in transports : e.transport # c
      /\ \A c \in 1..Len(conns) :
           (conns[c].open /\ ~conns'[c].open) =>
             transports' = transports \ {Entry(conns[c].key, c)} ]_vars

(* --------------------- a read that fails before update ---------------- *)

\* the first call of a handler was the read and has failed with an error
\* other than not-found
ReadFailed(h) ==
  /\ Len(h.replies) >= 1
  /\ h.calls[1].method = "repos.getContent"
  /\ h.replies[1].kind = "throw"
  /\ h.replies[1].error.status # StatusNotFound

\* C19: when create_or_update_file is invoked without a token and its
\* preliminary read fails with an error other than not-found, the invocation
\* ends with one error-flagged result whose text renders that error, and no
\* write call is issued.
TheoremC19 ==
  \A r \in WithoutToken("create_or_update_file") :
    LET h == invocations[r].h
    IN ReadFailed(h) =>
         /\ h.pc = "done"
         /\ Len(h.calls) = 1
         /\ \A i \in 1..Len(h.calls) :
              h.calls[i].method # "repos.createOrUpdateFileContents"
         /\ Len(h.results) = 1
         /\ h.results[1].isError
         /\ OneTextBlock(h.results[1])
         /\ Range(h.replies[1].error.message)
              \subseteq Range(h.results[1].content[1].text)

\* an update without a token whose read failed with a server error has ended
\* with its error result on the stream of its session
WitnessC19 ==
  \E r \in WithoutToken("create_or_update_file") :
    /\ ReadFailed(invocations[r].h)
    /\ invocations[r].h.replies[1].error = ServerError
    /\ invocations[r].h.results[1].isError
    /\ Deliveries(invocations[r].transport, r) # {}

====
